---------------------------- MODULE Spec2Model ----------------------------
(***************************************************************************)
(* Model of plainyogurt21/pdf_formulary:                                   *)
(*   src/plan_analysis.py       load_plans_data, load_formulary_data,      *)
(*                              analyze_plan_changes,                      *)
(*                              collect_metrics_by_period, the script body *)
(*   src/formulary_analysis.py  load_formulary_data, analyze_ndc_stats,    *)
(*                              get_current_requirements,                  *)
(*                              compare_formulary_periods                  *)
(*                                                                         *)
(* Conventions.                                                            *)
(*  - A Python string is a sequence of one-character strings, so that      *)
(*    padding, concatenation and lexicographic comparison are computed.    *)
(*  - A Python value that may be an int or a string (an NDC cell, a        *)
(*    query NDC) is a tagged record: PyInt(n) or PyStr(s).                 *)
(*  - A DataFrame is the sequence of its rows, each row a record whose     *)
(*    fields are the columns; where None may stand for a DataFrame the     *)
(*    value is DataFrame(rows) or None.                                    *)
(*  - A number rounded to d decimals is the integer number of 10^-d units  *)
(*    (round(x, 1) = 33.3 is 333; round(x, 2) = 66.67 is 6667).            *)
(***************************************************************************)
EXTENDS Integers, Sequences, FiniteSets, TLC

None == [type |-> "None"]
DataFrame(rows) == [type |-> "DataFrame", rows |-> rows]

PyInt(n) == [type |-> "int", val |-> n]
PyStr(s) == [type |-> "str", val |-> s]

---------------------------------------------------------------------------
(* Strings                                                                 *)

\* The characters the model's strings use, in ASCII order.
Chars ==
  << "+", "-",
     "0", "1", "2", "3", "4", "5", "6", "7", "8", "9",
     "A", "B", "C", "D", "E", "F", "G", "H", "I", "J", "K", "L", "M",
     "N", "O", "P", "Q", "R", "S", "T", "U", "V", "W", "X", "Y", "Z",
     "_",
     "a", "b", "c", "d", "e", "f", "g", "h", "i", "j", "k", "l", "m",
     "n", "o", "p", "q", "r", "s", "t", "u", "v", "w", "x", "y", "z" >>

\* Position of a character in ASCII order (order-preserving stand-in for ord()).
OrdTable == [c \in {Chars[k] : k \in 1..Len(Chars)} |-> CHOOSE k \in 1..Len(Chars) : Chars[k] = c]
Ord(c) == OrdTable[c]

\* Python's < on str: lexicographic by code point, a proper prefix is smaller.
RECURSIVE StrLess(_, _)
StrLess(a, b) ==
  IF b = << >> THEN FALSE
  ELSE IF a = << >> THEN TRUE
  ELSE IF Head(a) = Head(b) THEN StrLess(Tail(a), Tail(b))
  ELSE Ord(Head(a)) < Ord(Head(b))

DigitChar == << "0", "1", "2", "3", "4", "5", "6", "7", "8", "9" >>

\* str(n) for an int n >= 0: its decimal digits, no leading zeros.
RECURSIVE DigitsOf(_)
DigitsOf(n) ==
  IF n < 10 THEN << DigitChar[n + 1] >>
  ELSE DigitsOf(n \div 10) \o << DigitChar[(n % 10) + 1] >>

\* str(n) for an int.
IntToStr(n) == IF n < 0 THEN << "-" >> \o DigitsOf(-n) ELSE DigitsOf(n)

\* str(v) / Series.astype(str) on one cell: an int prints in decimal, a str is itself.
str(v) == IF v.type = "int" THEN IntToStr(v.val) ELSE v.val

\* n copies of '0'.
Zeros(n) == [k \in 1..n |-> "0"]

\* str.zfill(width) and Series.str.zfill(width): a string at least width long is
\* returned unchanged; otherwise '0' is inserted on the left, after a leading sign.
zfill(s, width) ==
  IF Len(s) >= width THEN s
  ELSE IF s # << >> /\ Head(s) \in {"+", "-"}
       THEN << Head(s) >> \o Zeros(width - Len(s)) \o Tail(s)
       ELSE Zeros(width - Len(s)) \o s

\* The width both analyses pad NDCs to.
NdcWidth == 11

\* str(x).zfill(11): the normalised form of a query NDC or of an NDC cell.
NormalizeNdc(v) == zfill(str(v), NdcWidth)

---------------------------------------------------------------------------
(* Numbers                                                                 *)

Pow10(d) == IF d = 0 THEN 1 ELSE IF d = 1 THEN 10 ELSE 100

\* round(num / den, d) in units of 10^-d, den > 0: to the nearest unit, a tie to
\* the even unit.
Round(num, den, d) ==
  LET scaled == num * Pow10(d)
      q      == (2 * scaled + den) \div (2 * den)
      tie    == (2 * scaled + den) % (2 * den) = 0
  IN  IF tie /\ q % 2 # 0 THEN q - 1 ELSE q

RECURSIVE SumSeq(_)
SumSeq(s) == IF s = << >> THEN 0 ELSE Head(s) + SumSeq(Tail(s))

\* The values of column col, in row order.
Column(df, col) == [k \in 1..Len(df) |-> df[k][col]]

\* set(series) / series.unique() as a set.
Values(df, col) == { df[k][col] : k \in 1..Len(df) }

\* (series == 'Y').sum()
CountY(df, col) == Cardinality({ k \in 1..Len(df) : df[k][col] = "Y" })

\* A stable sort of s, less[j, k] telling whether s[j] sorts strictly before
\* s[k]: sort_values / sort_index.
StableSort(s, less) ==
  LET rank == [k \in 1..Len(s) |->
                 1 + Cardinality({ j \in 1..Len(s) :
                       less[j, k] \/ (~less[k, j] /\ j < k) })]
  IN  [r \in 1..Len(s) |-> s[CHOOSE k \in 1..Len(s) : rank[k] = r]]

---------------------------------------------------------------------------
(* Files and pd.read_csv                                                   *)

\* The candidate encodings of both loaders of plan_analysis.py, in order.
encodings == << "utf-8", "latin1", "cp1252" >>

\* A file on disk: the table it holds and, per candidate encoding, how
\* pd.read_csv(path, delimiter='|', encoding=e) ends: "ok", "UnicodeDecodeError"
\* or "Exception" (any other error: a missing file, a parser error).
File(table, outcome) == [table |-> table, outcome |-> outcome]

AllOk == [e \in 1..Len(encodings) |-> "ok"]

\* The for/try/except loop of the loaders from candidate k on: the table of the
\* first encoding that reads, with the loop variable's last value; None when
\* every candidate fails (both except clauses continue).
RECURSIVE TryEncodings(_, _)
TryEncodings(file, k) ==
  IF file.outcome[k] = "ok"
  THEN [df |-> DataFrame(file.table), encoding |-> encodings[k]]
  ELSE IF k = Len(encodings) THEN [df |-> None, encoding |-> encodings[k]]
  ELSE TryEncodings(file, k + 1)

\* CONTRACT_ID.astype(str) + '_' + PLAN_ID.astype(str)
PlanKey(row) == str(row.CONTRACT_ID) \o << "_" >> \o str(row.PLAN_ID)

\* plans_df with the PLAN_KEY column added.
WithPlanKey(df) == [k \in 1..Len(df) |-> df[k] @@ [PLAN_KEY |-> PlanKey(df[k])]]

\* plan_analysis.load_plans_data: (plans_df, total_plans_count), or the TypeError
\* of subscripting None when no encoding read the file.
load_plans_data(plan_file) ==
  LET got == TryEncodings(plan_file, 1)
  IN  IF got.df = None
      THEN [raised |-> "TypeError", encoding |-> got.encoding]
      ELSE LET plans_df == WithPlanKey(got.df.rows)
           IN  [raised |-> "", encoding |-> got.encoding,
                plans_df |-> DataFrame(plans_df),
                total_plans_count |-> Cardinality(Values(plans_df, "PLAN_KEY"))]

\* plan_analysis.load_formulary_data: the DataFrame, or None when no encoding
\* read the file.
load_formulary_data(formulary_file) ==
  LET got == TryEncodings(formulary_file, 1)
  IN  [raised |-> "", encoding |-> got.encoding, formulary_df |-> got.df]

---------------------------------------------------------------------------
(* plan_analysis.analyze_plan_changes                                      *)

\* The filter compares the raw cell text with the padded query.
FilterNdc_raw(formulary_df, target_ndc) ==
  SelectSeq(formulary_df, LAMBDA r : str(r.NDC) = NormalizeNdc(target_ndc))

\* df[df['NDC'].astype(str).str.zfill(11) == str(target_ndc).zfill(11)]
FilterNdc(formulary_df, target_ndc) ==
  SelectSeq(formulary_df, LAMBDA r : NormalizeNdc(r.NDC) = NormalizeNdc(target_ndc))

\* The rows pd.merge(..., on='FORMULARY_ID', how='inner') makes of one left row:
\* one per right row with the same FORMULARY_ID, in the right rows' order.
MergeRow(l, right) ==
  LET hits == SelectSeq(right, LAMBDA r : r.FORMULARY_ID = l.FORMULARY_ID)
  IN  [k \in 1..Len(hits) |-> l @@ hits[k]]

\* pd.merge(left, right, on='FORMULARY_ID', how='inner'): the left rows' order kept.
RECURSIVE merge(_, _)
merge(left, right) ==
  IF left = << >> THEN << >>
  ELSE MergeRow(Head(left), right) \o merge(Tail(left), right)

RECURSIVE DropDuplicatesFrom(_, _)
DropDuplicatesFrom(df, seen) ==
  IF df = << >> THEN << >>
  ELSE IF Head(df).PLAN_KEY \in seen THEN DropDuplicatesFrom(Tail(df), seen)
  ELSE << Head(df) >> \o DropDuplicatesFrom(Tail(df), seen \cup {Head(df).PLAN_KEY})

\* keep='last' instead of the default keep='first'.
drop_duplicates_last(df) ==
  SelectSeq(df, LAMBDA r :
    r = df[CHOOSE k \in 1..Len(df) :
             /\ df[k].PLAN_KEY = r.PLAN_KEY
             /\ \A j \in (k + 1)..Len(df) : df[j].PLAN_KEY # r.PLAN_KEY])

\* df.drop_duplicates('PLAN_KEY'): of the rows with one PLAN_KEY the first is kept.
drop_duplicates(df) == DropDuplicatesFrom(df, {})

\* df[df['PLAN_KEY'].isin(keys)]
IsIn(df, keys) == SelectSeq(df, LAMBDA r : r.PLAN_KEY \in keys)

\* df[['PLAN_KEY', 'CONTRACT_NAME', 'PLAN_NAME']].to_dict('records')
Details(df) ==
  [k \in 1..Len(df) |-> [PLAN_KEY |-> df[k].PLAN_KEY,
                         CONTRACT_NAME |-> df[k].CONTRACT_NAME,
                         PLAN_NAME |-> df[k].PLAN_NAME]]

\* A fraction num/den, den > 0: the unrounded value of a metric.
Frac(num, den) == [num |-> num, den |-> den]

ZeroMetrics == [avg_tier |-> Frac(0, 1), pa_percent |-> Frac(0, 1), st_percent |-> Frac(0, 1)]

\* calculate_metrics of analyze_plan_changes.
calculate_metrics(df) ==
  IF Len(df) = 0 THEN ZeroMetrics
  ELSE [avg_tier   |-> Frac(SumSeq(Column(df, "TIER_LEVEL_VALUE")), Len(df)),
        pa_percent |-> Frac(100 * CountY(df, "PRIOR_AUTHORIZATION_YN"), Len(df)),
        st_percent |-> Frac(100 * CountY(df, "STEP_THERAPY_YN"), Len(df))]

\* The three round(..., 1) of one group of metric_changes, in tenths.
Rounded1(m) ==
  [avg_tier   |-> Round(m.avg_tier.num, m.avg_tier.den, 1),
   pa_percent |-> Round(m.pa_percent.num, m.pa_percent.den, 1),
   st_percent |-> Round(m.st_percent.num, m.st_percent.den, 1)]

\* The frame is indexed by PLAN_KEY but left in its own order.
SortIndex_none(df) == df

\* df.set_index('PLAN_KEY').sort_index()
SortIndex(df) ==
  StableSort(df, [j \in 1..Len(df), k \in 1..Len(df) |->
                    StrLess(df[j].PLAN_KEY, df[k].PLAN_KEY)])

\* (new[col] != old[col]).sum() of two frames indexed by the same sorted keys.
CountChanges(new_maintained, old_maintained, col) ==
  Cardinality({ k \in 1..Len(new_maintained) :
                  new_maintained[k][col] # old_maintained[k][col] })

\* round((len(plans) / total_plans * 100) if total_plans > 0 else 0, 2), in hundredths.
coverage_percent(n_plans, total_plans) ==
  IF total_plans > 0 THEN Round(100 * n_plans, total_plans, 2) ELSE 0

\* The removed plans are taken from the new side.
PlanChanges_swapped(old_plans, new_plans) ==
  [added      |-> new_plans \ old_plans,
   removed    |-> new_plans \ old_plans,
   maintained |-> old_plans \cap new_plans]

\* added_plans, removed_plans, maintained_plans (lines 74-76).
PlanChanges(old_plans, new_plans) ==
  [added      |-> new_plans \ old_plans,
   removed    |-> old_plans \ new_plans,
   maintained |-> old_plans \cap new_plans]

\* analyze_plan_changes on DataFrames that are not None: its locals and, in
\* result, the dictionary it returns.
analyze_plan_changes(old_formulary_df, old_plans_df, old_total_plans, new_formulary_df, new_plans_df, new_total_plans, target_ndc) ==
  LET old_data   == FilterNdc(old_formulary_df, target_ndc)
      new_data   == FilterNdc(new_formulary_df, target_ndc)
      old_merged == drop_duplicates(merge(old_data, old_plans_df))
      new_merged == drop_duplicates(merge(new_data, new_plans_df))
      old_plans  == Values(old_merged, "PLAN_KEY")
      new_plans  == Values(new_merged, "PLAN_KEY")
      changes    == PlanChanges(old_plans, new_plans)
      added_plans      == changes.added
      removed_plans    == changes.removed
      maintained_plans == changes.maintained
      old_metrics == calculate_metrics(old_merged)
      new_metrics == calculate_metrics(new_merged)
      old_maintained == SortIndex(IsIn(old_merged, maintained_plans))
      new_maintained == SortIndex(IsIn(new_merged, maintained_plans))
      maintained_old_metrics ==
        IF maintained_plans # {} THEN calculate_metrics(old_maintained) ELSE ZeroMetrics
      maintained_new_metrics ==
        IF maintained_plans # {} THEN calculate_metrics(new_maintained) ELSE ZeroMetrics
      pa_changes ==
        IF maintained_plans # {}
        THEN CountChanges(new_maintained, old_maintained, "PRIOR_AUTHORIZATION_YN")
        ELSE 0
      st_changes ==
        IF maintained_plans # {}
        THEN CountChanges(new_maintained, old_maintained, "STEP_THERAPY_YN")
        ELSE 0
      added_metrics == calculate_metrics(IsIn(new_merged, added_plans))
  IN  [raised     |-> "",
       old_data   |-> old_data,
       new_data   |-> new_data,
       old_merged |-> old_merged,
       new_merged |-> new_merged,
       old_plans  |-> old_plans,
       new_plans  |-> new_plans,
       added_plans      |-> added_plans,
       removed_plans    |-> removed_plans,
       maintained_plans |-> maintained_plans,
       result |->
         [ndc |-> target_ndc,
          plan_changes |->
            [added      |-> Cardinality(added_plans),
             removed    |-> Cardinality(removed_plans),
             maintained |-> Cardinality(maintained_plans),
             added_details   |-> Details(IsIn(new_merged, added_plans)),
             removed_details |-> Details(IsIn(old_merged, removed_plans))],
          metric_changes |->
            [all_plans        |-> [old |-> Rounded1(old_metrics),
                                   new |-> Rounded1(new_metrics)],
             maintained_plans |-> [old |-> Rounded1(maintained_old_metrics),
                                   new |-> Rounded1(maintained_new_metrics)],
             added_plans      |-> Rounded1(added_metrics),
             changes |-> [prior_auth_changes   |-> pa_changes,
                          step_therapy_changes |-> st_changes]],
          coverage |->
            [old_coverage_percent |-> coverage_percent(Cardinality(old_plans), old_total_plans),
             new_coverage_percent |-> coverage_percent(Cardinality(new_plans), new_total_plans)],
          total_plans |-> [old |-> old_total_plans, new |-> new_total_plans]]]

---------------------------------------------------------------------------
(* plan_analysis.collect_metrics_by_period                                 *)

\* < on the cells of one column: ints by value, strings lexicographically.
CellLess(a, b) ==
  IF a.type = "int" /\ b.type = "int" THEN a.val < b.val ELSE StrLess(str(a), str(b))

\* The order of sort_values(['drug', 'ndc', 'period']).
MetricsLess(a, b) ==
  \/ StrLess(a.drug, b.drug)
  \/ a.drug = b.drug /\ CellLess(a.ndc, b.ndc)
  \/ a.drug = b.drug /\ a.ndc = b.ndc /\ StrLess(a.period, b.period)

\* The table is returned in the order the rows were appended.
sort_values_none(metrics_data) == metrics_data

\* metrics_df.sort_values(['drug', 'ndc', 'period'])
sort_values(metrics_data) ==
  StableSort(metrics_data,
             [j \in 1..Len(metrics_data), k \in 1..Len(metrics_data) |->
                MetricsLess(metrics_data[j], metrics_data[k])])

\* The added and the removed counts change places in the row.
MetricsRow_swapped(drug_name, ndc, new_period, comparison) ==
  [drug    |-> drug_name,
   ndc     |-> ndc,
   period  |-> new_period,
   coverage         |-> comparison.coverage.new_coverage_percent,
   total_plans      |-> comparison.total_plans.new,
   maintained_plans |-> comparison.plan_changes.maintained,
   added_plans      |-> comparison.plan_changes.removed,
   removed_plans    |-> comparison.plan_changes.added,
   avg_tier   |-> comparison.metric_changes.all_plans.new.avg_tier,
   pa_percent |-> comparison.metric_changes.all_plans.new.pa_percent,
   st_percent |-> comparison.metric_changes.all_plans.new.st_percent]

\* The row of the new period of one comparison (the dict metrics).
MetricsRow(drug_name, ndc, new_period, comparison) ==
  [drug    |-> drug_name,
   ndc     |-> ndc,
   period  |-> new_period,
   coverage         |-> comparison.coverage.new_coverage_percent,
   total_plans      |-> comparison.total_plans.new,
   maintained_plans |-> comparison.plan_changes.maintained,
   added_plans      |-> comparison.plan_changes.added,
   removed_plans    |-> comparison.plan_changes.removed,
   avg_tier   |-> comparison.metric_changes.all_plans.new.avg_tier,
   pa_percent |-> comparison.metric_changes.all_plans.new.pa_percent,
   st_percent |-> comparison.metric_changes.all_plans.new.st_percent]

\* The baseline row is filled from the new side of the comparison.
FirstMetricsRow_new(drug_name, ndc, old_period, comparison) ==
  [drug    |-> drug_name,
   ndc     |-> ndc,
   period  |-> old_period,
   coverage         |-> comparison.coverage.new_coverage_percent,
   total_plans      |-> comparison.total_plans.new,
   maintained_plans |-> 0,
   added_plans      |-> 0,
   removed_plans    |-> 0,
   avg_tier   |-> comparison.metric_changes.all_plans.new.avg_tier,
   pa_percent |-> comparison.metric_changes.all_plans.new.pa_percent,
   st_percent |-> comparison.metric_changes.all_plans.new.st_percent]

\* The row of the first period (the dict first_metrics).
FirstMetricsRow(drug_name, ndc, old_period, comparison) ==
  [drug    |-> drug_name,
   ndc     |-> ndc,
   period  |-> old_period,
   coverage         |-> comparison.coverage.old_coverage_percent,
   total_plans      |-> comparison.total_plans.old,
   maintained_plans |-> 0,
   added_plans      |-> 0,
   removed_plans    |-> 0,
   avg_tier   |-> comparison.metric_changes.all_plans.old.avg_tier,
   pa_percent |-> comparison.metric_changes.all_plans.old.pa_percent,
   st_percent |-> comparison.metric_changes.all_plans.old.st_percent]

---------------------------------------------------------------------------
(* formulary_analysis.py                                                   *)

\* formulary_analysis.load_formulary_data: pd.read_csv with the default encoding
\* (utf-8), whose error is not caught; the NDC column rewritten in normalised
\* form; the rows whose NDC equals the normalised target.
fa_load_formulary_data(file, target_ndc) ==
  IF file.outcome[1] # "ok"
  THEN [raised |-> file.outcome[1], rows |-> << >>]
  ELSE LET df == [k \in 1..Len(file.table) |->
                    [file.table[k] EXCEPT !.NDC = PyStr(NormalizeNdc(@))]]
           target == PyStr(NormalizeNdc(target_ndc))
       IN  [raised |-> "", rows |-> SelectSeq(df, LAMBDA r : r.NDC = target)]

\* analyze_ndc_stats: round(..., 2) values in hundredths.
analyze_ndc_stats(file, target_ndc) ==
  LET loaded   == fa_load_formulary_data(file, target_ndc)
      ndc_data == loaded.rows
  IN  IF loaded.raised # "" THEN [raised |-> loaded.raised]
      ELSE IF Len(ndc_data) = 0
      THEN [raised |-> "",
            result |-> [ndc |-> target_ndc, prior_auth_percent |-> 0, avg_tier |-> 0,
                        step_therapy_percent |-> 0, count |-> 0, formularies |-> {}]]
      ELSE [raised |-> "",
            result |->
              [ndc |-> target_ndc,
               prior_auth_percent |->
                 Round(100 * CountY(ndc_data, "PRIOR_AUTHORIZATION_YN"), Len(ndc_data), 2),
               avg_tier |->
                 Round(SumSeq(Column(ndc_data, "TIER_LEVEL_VALUE")), Len(ndc_data), 2),
               step_therapy_percent |->
                 Round(100 * CountY(ndc_data, "STEP_THERAPY_YN"), Len(ndc_data), 2),
               count |-> Len(ndc_data),
               formularies |-> Values(ndc_data, "FORMULARY_ID")]]

\* Zeros are returned for no rows, as analyze_ndc_stats does.
get_current_requirements_zero(data) ==
  IF Len(data) = 0
  THEN [avg_tier |-> 0, prior_auth_percent |-> 0, step_therapy_percent |-> 0]
  ELSE [avg_tier |-> Round(SumSeq(Column(data, "TIER_LEVEL_VALUE")), Len(data), 2),
        prior_auth_percent |->
          Round(100 * CountY(data, "PRIOR_AUTHORIZATION_YN"), Len(data), 2),
        step_therapy_percent |->
          Round(100 * CountY(data, "STEP_THERAPY_YN"), Len(data), 2)]

\* get_current_requirements: None for no rows.
get_current_requirements(data) ==
  IF Len(data) = 0 THEN None
  ELSE [avg_tier |-> Round(SumSeq(Column(data, "TIER_LEVEL_VALUE")), Len(data), 2),
        prior_auth_percent |->
          Round(100 * CountY(data, "PRIOR_AUTHORIZATION_YN"), Len(data), 2),
        step_therapy_percent |->
          Round(100 * CountY(data, "STEP_THERAPY_YN"), Len(data), 2)]

\* data[data['FORMULARY_ID'] == formulary_id].iloc[0]
FirstOf(data, formulary_id) ==
  data[CHOOSE k \in 1..Len(data) :
         /\ data[k].FORMULARY_ID = formulary_id
         /\ \A j \in 1..(k - 1) : data[j].FORMULARY_ID # formulary_id]

RECURSIVE SumOver(_, _)
SumOver(S, f) ==
  IF S = {} THEN 0 ELSE LET x == CHOOSE y \in S : TRUE IN f[x] + SumOver(S \ {x}, f)

\* len(pd.read_csv(file, delimiter='|')['FORMULARY_ID'].unique())
TotalFormularies(file) == Cardinality(Values(file.table, "FORMULARY_ID"))

\* added_formularies, removed_formularies, maintained_formularies (lines 86-88).
FormularyChanges(old_formularies, new_formularies) ==
  [added      |-> new_formularies \ old_formularies,
   removed    |-> old_formularies \ new_formularies,
   maintained |-> old_formularies \cap new_formularies]

\* compare_formulary_periods: its locals and, in result, the dictionary it
\* returns; raised names the exception when a read fails or a total is zero.
compare_formulary_periods(old_file, new_file, target_ndc) ==
  LET old_loaded == fa_load_formulary_data(old_file, target_ndc)
      new_loaded == fa_load_formulary_data(new_file, target_ndc)
      old_data == old_loaded.rows
      new_data == new_loaded.rows
      old_formularies == Values(old_data, "FORMULARY_ID")
      new_formularies == Values(new_data, "FORMULARY_ID")
      changes == FormularyChanges(old_formularies, new_formularies)
      added_formularies      == changes.added
      removed_formularies    == changes.removed
      maintained_formularies == changes.maintained
      old_total_formularies == TotalFormularies(old_file)
      new_total_formularies == TotalFormularies(new_file)
      tier_change == [f \in maintained_formularies |->
                        FirstOf(new_data, f).TIER_LEVEL_VALUE
                        - FirstOf(old_data, f).TIER_LEVEL_VALUE]
      locals == [old_data |-> old_data, new_data |-> new_data,
                 old_formularies |-> old_formularies,
                 new_formularies |-> new_formularies,
                 added_formularies |-> added_formularies,
                 removed_formularies |-> removed_formularies,
                 maintained_formularies |-> maintained_formularies,
                 old_total_formularies |-> old_total_formularies,
                 new_total_formularies |-> new_total_formularies]
  IN  IF old_loaded.raised # "" THEN [raised |-> old_loaded.raised]
      ELSE IF new_loaded.raised # "" THEN [raised |-> new_loaded.raised]
      ELSE IF old_total_formularies = 0 \/ new_total_formularies = 0
      THEN [raised |-> "ZeroDivisionError"] @@ locals
      ELSE [raised |-> "",
            result |->
              [ndc |-> target_ndc,
               formulary_changes |->
                 [added      |-> Cardinality(added_formularies),
                  removed    |-> Cardinality(removed_formularies),
                  maintained |-> Cardinality(maintained_formularies),
                  added_list   |-> added_formularies,
                  removed_list |-> removed_formularies],
               metric_changes |->
                 [avg_tier_change |->
                    IF maintained_formularies # {}
                    THEN Round(SumOver(maintained_formularies, tier_change),
                               Cardinality(maintained_formularies), 2)
                    ELSE 0,
                  prior_auth_changes |->
                    Cardinality({ f \in maintained_formularies :
                      FirstOf(new_data, f).PRIOR_AUTHORIZATION_YN
                        # FirstOf(old_data, f).PRIOR_AUTHORIZATION_YN }),
                  step_therapy_changes |->
                    Cardinality({ f \in maintained_formularies :
                      FirstOf(new_data, f).STEP_THERAPY_YN
                        # FirstOf(old_data, f).STEP_THERAPY_YN })],
               coverage |->
                 [old_coverage_percent |->
                    Round(100 * Cardinality(old_formularies), old_total_formularies, 2),
                  new_coverage_percent |->
                    Round(100 * Cardinality(new_formularies), new_total_formularies, 2)],
               current_requirements |->
                 [old |-> get_current_requirements(old_data),
                  new |-> get_current_requirements(new_data)]]] @@ locals

---------------------------------------------------------------------------
(* Inputs                                                                  *)

\* The longest time_periods list explored.
MaxPeriods == 3
\* The most rows of a generated formulary table or plan table.
MaxRows == 2

SeqsUpTo(S, n) == UNION { [1..k -> S] : k \in 0..n }

feb2023 == << "f", "e", "b", "2", "0", "2", "3" >>
dec2023 == << "d", "e", "c", "2", "0", "2", "3" >>
feb2024 == << "f", "e", "b", "2", "0", "2", "4" >>
dec2024 == << "d", "e", "c", "2", "0", "2", "4" >>
feb2025 == << "f", "e", "b", "2", "0", "2", "5" >>

\* time_periods of the script.
ScriptPeriods == << feb2023, dec2023, feb2024, dec2024, feb2025 >>

\* The same five periods named so that the names sort chronologically.
IsoPeriods ==
  << << "2", "0", "2", "3", "-", "0", "2" >>, << "2", "0", "2", "3", "-", "1", "2" >>,
     << "2", "0", "2", "4", "-", "0", "2" >>, << "2", "0", "2", "4", "-", "1", "2" >>,
     << "2", "0", "2", "5", "-", "0", "2" >> >>

\* The time_periods lists explored: the first n periods of either naming.
TimePeriodLists ==
  { SubSeq(L, 1, n) : L \in {ScriptPeriods, IsoPeriods},
                      n \in 1..(IF MaxPeriods < 5 THEN MaxPeriods ELSE 5) }

Tafamidis == << "T", "a", "f", "a", "m", "i", "d", "i", "s" >>
Repatha   == << "R", "e", "p", "a", "t", "h", "a" >>

\* '00069197540', the NDC of Tafamidis in the script's drug_mapping.
Ndc11 == << "0", "0", "0", "6", "9", "1", "9", "7", "5", "4", "0" >>
\* '69197540', the same NDC without its leading zeros.
Ndc8 == << "6", "9", "1", "9", "7", "5", "4", "0" >>
\* 69197540, the same NDC as pd.read_csv parses an all-digit column.
NdcInt == 69197540
\* '000069197540', twelve characters.
Ndc12 == << "0", "0", "0", "0", "6", "9", "1", "9", "7", "5", "4", "0" >>
\* '72511075001', the NDC of Repatha.
NdcRepatha == << "7", "2", "5", "1", "1", "0", "7", "5", "0", "0", "1" >>

\* The NDCs queries are made with.
QueryNdcs == { PyStr(Ndc11), PyStr(Ndc8), PyInt(NdcInt), PyStr(Ndc12), PyStr(NdcRepatha) }

\* The drug_mapping dictionaries explored, each the sequence of its items.
DrugMappings ==
  { << [drug |-> Tafamidis, ndcs |-> << PyStr(Ndc11) >>] >>,
    << [drug |-> Tafamidis, ndcs |-> << PyStr(Ndc8), PyStr(Ndc12) >>],
       [drug |-> Repatha,   ndcs |-> << PyStr(NdcRepatha) >>] >>,
    << [drug |-> Tafamidis, ndcs |-> << PyInt(NdcInt) >>] >> }

FRow(ndc, fid, tier, pa, st) ==
  [NDC |-> ndc, FORMULARY_ID |-> fid, TIER_LEVEL_VALUE |-> tier,
   PRIOR_AUTHORIZATION_YN |-> pa, STEP_THERAPY_YN |-> st]

PRow(contract, plan, fid, cname, pname) ==
  [CONTRACT_ID |-> PyStr(contract), PLAN_ID |-> PyInt(plan), FORMULARY_ID |-> fid,
   CONTRACT_NAME |-> cname, PLAN_NAME |-> pname]

C1 == << "C", "1" >>
C2 == << "C", "2" >>
C3 == << "C", "3" >>

Snapshot(formulary, plans) == [formulary |-> formulary, plans |-> plans]

\* The rows generated tables are made of.
GenFormularyRows ==
  { FRow(ndc, t[1], t[2], t[3], t[4]) :
      ndc \in {PyInt(NdcInt), PyStr(NdcRepatha)},
      t \in {<< "F1", 1, "N", "N" >>, << "F2", 2, "Y", "Y" >>, << "F1", 3, "Y", "N" >>} }

GenPlanRows ==
  { PRow(C1, 1, "F1", "Acme", "Basic"), PRow(C1, 1, "F2", "Acme", "Plus"),
    PRow(C2, 1, "F1", "Beta", "Basic"), PRow(C2, 1, "F2", "Beta", "Plus") }

\* The snapshots of the end-to-end scenario's new period, of no rows at all, and
\* of repeated plan keys and NDC rows: what a generated table is put beside.
SnapB ==
  Snapshot(<< FRow(PyInt(NdcInt), "F1", 3, "Y", "N") >>,
           << PRow(C1, 1, "F1", "Acme", "Basic"), PRow(C2, 1, "F1", "Beta", "Basic") >>)
SnapD == Snapshot(<< >>, << >>)
SnapE ==
  Snapshot(<< FRow(PyStr(Ndc11), "F2", 1, "N", "Y"),
              FRow(PyInt(NdcInt), "F1", 2, "Y", "N"),
              FRow(PyStr(Ndc11), "F2", 4, "Y", "Y") >>,
           << PRow(C2, 1, "F1", "Beta", "Silver"), PRow(C2, 1, "F2", "Beta", "Gold"),
              PRow(C3, 1, "F2", "Gamma", "Basic") >>)

\* The snapshots a series is made of: the old period of the end-to-end scenario
\* (one plan on F1), one that does not list Tafamidis, and the three above.
FixedSnapshots ==
  { Snapshot(<< FRow(PyInt(NdcInt), "F1", 2, "N", "N") >>,
             << PRow(C1, 1, "F1", "Acme", "Basic") >>),
    Snapshot(<< FRow(PyStr(NdcRepatha), "F1", 1, "N", "N") >>,
             << PRow(C1, 1, "F1", "Acme", "Basic") >>),
    SnapB, SnapD, SnapE }

\* Every snapshot with one table of at most MaxRows generated rows beside a
\* written-out table.
GenSnapshots ==
  { Snapshot(f, sn.plans) : f \in SeqsUpTo(GenFormularyRows, MaxRows), sn \in {SnapB, SnapE} }
  \cup
  { Snapshot(sn.formulary, p) : p \in SeqsUpTo(GenPlanRows, MaxRows), sn \in {SnapB, SnapE} }

\* How read_csv may end under the three encodings.
Outcomes == [1..Len(encodings) -> {"ok", "UnicodeDecodeError", "Exception"}]

\* The two files of a period, read by every encoding.
Readable(snap) == [plan |-> File(snap.plans, AllOk), formulary |-> File(snap.formulary, AllOk)]

\* A run's configuration: time_periods and, per period, file_paths' two files.
\*  - a series of up to MaxPeriods periods, each a written-out snapshot;
\*  - two periods, one a written-out and the other a generated snapshot;
\*  - two periods, one file of the first being read with some encodings failing.
SeriesConfigs ==
  UNION { { [time_periods |-> tp, files |-> fs] :
              fs \in [{tp[j] : j \in 1..Len(tp)} -> {Readable(sn) : sn \in FixedSnapshots}] } :
          tp \in TimePeriodLists }

PairConfigs ==
  LET tp == SubSeq(ScriptPeriods, 1, 2)
  IN  { [time_periods |-> tp,
         files |-> (tp[side[1]] :> Readable(fixed)) @@ (tp[side[2]] :> Readable(gen))] :
          side \in {<< 1, 2 >>, << 2, 1 >>}, fixed \in {SnapB, SnapD, SnapE},
          gen \in GenSnapshots }

LoadConfigs ==
  LET tp    == SubSeq(ScriptPeriods, 1, 2)
      snapA == Snapshot(<< FRow(PyInt(NdcInt), "F1", 2, "N", "N") >>,
                        << PRow(C1, 1, "F1", "Acme", "Basic") >>)
  IN  { [time_periods |-> tp,
         files |-> (tp[1] :> [plan |-> File(snapA.plans, o[1]),
                              formulary |-> File(snapA.formulary, o[2])])
                   @@ (tp[2] :> Readable(snapA))] :
          o \in { << AllOk, x >> : x \in Outcomes } \cup { << x, AllOk >> : x \in Outcomes } }

\* A snapshot of three plans, two of them on two formularies that list Tafamidis
\* with different requirements and the third on a formulary that does not.
SnapF ==
  Snapshot(<< FRow(PyInt(NdcInt), "F1", 1, "N", "Y"), FRow(PyInt(NdcInt), "F2", 2, "Y", "N") >>,
           << PRow(C1, 1, "F1", "Acme", "Basic"), PRow(C2, 1, "F2", "Beta", "Plus"),
              PRow(C3, 1, "F3", "Gamma", "Basic") >>)

\*  - two periods, one SnapF and the other a generated plan table beside the
\*    formulary table of SnapE, whose joined view follows the formulary rows.
OrderConfigs ==
  LET tp == SubSeq(ScriptPeriods, 1, 2)
  IN  { [time_periods |-> tp,
         files |-> (tp[side[1]] :> Readable(SnapF))
                   @@ (tp[side[2]] :> Readable(Snapshot(SnapE.formulary, p)))] :
          side \in {<< 1, 2 >>, << 2, 1 >>}, p \in SeqsUpTo(GenPlanRows, MaxRows) }

Configs == SeriesConfigs \cup PairConfigs \cup LoadConfigs \cup OrderConfigs

---------------------------------------------------------------------------
(* The script of plan_analysis.py                                          *)

VARIABLES
  time_periods,  \* the script's list of period identifiers
  files,         \* file_paths with the files' contents: period -> [plan, formulary]
  pc,            \* "start", "load", "collect", "done", "raised"
  raised,        \* the exception that ended the run, "" while none
  period_data,   \* period -> [plans_df, total_plans, formulary_df], as loaded so far
  drug_mapping,  \* collect_metrics_by_period's argument: sequence of [drug, ndcs]
  cursor,        \* the next iteration of its loops: [d, k, i], i counted from 0
  comparison,    \* the last analyze_plan_changes call (the two periods compared, its
                 \* locals and its result), or None
  metrics_data,  \* the list of rows appended so far
  metrics_df,    \* the table returned, << >> until then
  fa_call        \* the call made of formulary_analysis.py, or None

vars == << time_periods, files, pc, raised, period_data, drug_mapping, cursor,
           comparison, metrics_data, metrics_df, fa_call >>

Init ==
  /\ \E cfg \in Configs : time_periods = cfg.time_periods /\ files = cfg.files
  /\ pc = "start"
  /\ raised = ""
  /\ period_data = << >>
  /\ drug_mapping = << >>
  /\ cursor = [d |-> 1, k |-> 1, i |-> 0]
  /\ comparison = None
  /\ metrics_data = << >>
  /\ metrics_df = << >>
  /\ fa_call = None

\* One pass of the loading loop of the script (lines 298-313): the next period's two
\* files are loaded and stored; a TypeError of load_plans_data ends the run.
LoadPeriod ==
  /\ pc \in {"start", "load"}
  /\ Cardinality(DOMAIN period_data) < Len(time_periods)
  /\ LET period == time_periods[Cardinality(DOMAIN period_data) + 1]
         pl     == load_plans_data(files[period].plan)
         fo     == load_formulary_data(files[period].formulary)
     IN  IF pl.raised # ""
         THEN /\ pc' = "raised"
              /\ raised' = pl.raised
              /\ UNCHANGED period_data
         ELSE /\ pc' = "load"
              /\ period_data' = period_data @@
                   (period :> [plans_df     |-> pl.plans_df,
                               total_plans  |-> pl.total_plans_count,
                               formulary_df |-> fo.formulary_df])
              /\ UNCHANGED raised
  /\ UNCHANGED << time_periods, files, drug_mapping, cursor, comparison,
                  metrics_data, metrics_df, fa_call >>

\* The first iteration of the three nested loops, or past the end when there is none.
FirstCursor(dm, tp) ==
  IF Len(tp) - 1 >= 1 /\ Len(dm) >= 1
  THEN [d |-> 1, k |-> 1, i |-> 0]
  ELSE [d |-> Len(dm) + 1, k |-> 1, i |-> 0]

\* The iteration after c.
NextCursor(c, dm, tp) ==
  IF c.i + 1 < Len(tp) - 1 THEN [c EXCEPT !.i = c.i + 1]
  ELSE IF c.k < Len(dm[c.d].ndcs) THEN [d |-> c.d, k |-> c.k + 1, i |-> 0]
  ELSE [d |-> c.d + 1, k |-> 1, i |-> 0]

\* collect_metrics_by_period is called (line 322): metrics_data = [].
CollectStart ==
  /\ pc = "load"
  /\ Cardinality(DOMAIN period_data) = Len(time_periods)
  /\ \E dm \in DrugMappings :
       /\ drug_mapping' = dm
       /\ cursor' = FirstCursor(dm, time_periods)
  /\ pc' = "collect"
  /\ metrics_data' = << >>
  /\ UNCHANGED << time_periods, files, raised, period_data, comparison, metrics_df,
                  fa_call >>

\* The filter of analyze_plan_changes is made in place: each formulary frame is
\* left holding the rows of the NDC of the call.
CollectStep_inplace ==
  /\ pc = "collect"
  /\ cursor.d <= Len(drug_mapping)
  /\ LET drug_name  == drug_mapping[cursor.d].drug
         ndc        == drug_mapping[cursor.d].ndcs[cursor.k]
         old_period == time_periods[cursor.i + 1]
         new_period == time_periods[cursor.i + 2]
         old_data   == period_data[old_period]
         new_data   == period_data[new_period]
     IN  IF old_data.formulary_df = None \/ new_data.formulary_df = None
         THEN /\ pc' = "raised"
              /\ raised' = "TypeError"
              /\ UNCHANGED << cursor, comparison, metrics_data, period_data >>
         ELSE LET call == analyze_plan_changes(
                            old_data.formulary_df.rows, old_data.plans_df.rows,
                            old_data.total_plans,
                            new_data.formulary_df.rows, new_data.plans_df.rows,
                            new_data.total_plans, ndc)
                  metrics == MetricsRow(drug_name, ndc, new_period, call.result)
                  first_metrics == FirstMetricsRow(drug_name, ndc, old_period, call.result)
              IN  /\ comparison' = [old_period |-> old_period,
                                     new_period |-> new_period] @@ call
                  /\ metrics_data' =
                       IF cursor.i = 0
                       THEN metrics_data \o << first_metrics, metrics >>
                       ELSE Append(metrics_data, metrics)
                  /\ cursor' = NextCursor(cursor, drug_mapping, time_periods)
                  /\ period_data' =
                       [period_data EXCEPT
                          ![old_period].formulary_df = DataFrame(call.old_data),
                          ![new_period].formulary_df =
                            IF new_period = old_period THEN @ ELSE DataFrame(call.new_data)]
                  /\ UNCHANGED << pc, raised >>
  /\ UNCHANGED << time_periods, files, drug_mapping, metrics_df, fa_call >>

\* One pass of the innermost loop (lines 196-243): the comparison of periods i and
\* i + 1 for one NDC, the baseline row when i = 0, and the new period's row. A
\* formulary_df that is None ends the run in analyze_plan_changes (line 62).
CollectStep ==
  /\ pc = "collect"
  /\ cursor.d <= Len(drug_mapping)
  /\ LET drug_name  == drug_mapping[cursor.d].drug
         ndc        == drug_mapping[cursor.d].ndcs[cursor.k]
         old_period == time_periods[cursor.i + 1]
         new_period == time_periods[cursor.i + 2]
         old_data   == period_data[old_period]
         new_data   == period_data[new_period]
     IN  IF old_data.formulary_df = None \/ new_data.formulary_df = None
         THEN /\ pc' = "raised"
              /\ raised' = "TypeError"
              /\ UNCHANGED << cursor, comparison, metrics_data >>
         ELSE LET call == analyze_plan_changes(
                            old_data.formulary_df.rows, old_data.plans_df.rows,
                            old_data.total_plans,
                            new_data.formulary_df.rows, new_data.plans_df.rows,
                            new_data.total_plans, ndc)
                  metrics == MetricsRow(drug_name, ndc, new_period, call.result)
                  first_metrics == FirstMetricsRow(drug_name, ndc, old_period, call.result)
              IN  /\ comparison' = [old_period |-> old_period,
                                     new_period |-> new_period] @@ call
                  /\ metrics_data' =
                       IF cursor.i = 0
                       THEN metrics_data \o << first_metrics, metrics >>
                       ELSE Append(metrics_data, metrics)
                  /\ cursor' = NextCursor(cursor, drug_mapping, time_periods)
                  /\ UNCHANGED << pc, raised >>
  /\ UNCHANGED << time_periods, files, period_data, drug_mapping, metrics_df, fa_call >>

\* The loops are over (lines 245-251): the rows become a DataFrame, which is sorted
\* and returned; sort_values raises KeyError on the column-less frame of no rows.
CollectReturn ==
  /\ pc = "collect"
  /\ cursor.d > Len(drug_mapping)
  /\ IF metrics_data = << >>
     THEN /\ pc' = "raised"
          /\ raised' = "KeyError"
          /\ UNCHANGED metrics_df
     ELSE /\ pc' = "done"
          /\ metrics_df' = sort_values(metrics_data)
          /\ UNCHANGED raised
  /\ UNCHANGED << time_periods, files, period_data, drug_mapping, cursor,
                  comparison, metrics_data, fa_call >>

\* formulary_analysis.py run instead, comparing the formulary files of two
\* consecutive periods for one NDC (its script body, line 146).
CompareFormularyPeriods ==
  /\ pc = "start"
  /\ \E j \in 1..(Len(time_periods) - 1), target_ndc \in QueryNdcs :
       LET old_file == files[time_periods[j]].formulary
           new_file == files[time_periods[j + 1]].formulary
           call     == compare_formulary_periods(old_file, new_file, target_ndc)
       IN  /\ fa_call' = [fn |-> "compare_formulary_periods", old |-> j, new |-> j + 1,
                          target_ndc |-> target_ndc] @@ call
           /\ pc' = IF call.raised = "" THEN "done" ELSE "raised"
           /\ raised' = call.raised
  /\ UNCHANGED << time_periods, files, period_data, drug_mapping, cursor, comparison,
                  metrics_data, metrics_df >>

\* analyze_ndc_stats of formulary_analysis.py called on one formulary file.
AnalyzeNdcStats ==
  /\ pc = "start"
  /\ \E j \in 1..Len(time_periods), target_ndc \in QueryNdcs :
       LET call == analyze_ndc_stats(files[time_periods[j]].formulary, target_ndc)
       IN  /\ fa_call' = [fn |-> "analyze_ndc_stats", old |-> j, new |-> j,
                          target_ndc |-> target_ndc] @@ call
           /\ pc' = IF call.raised = "" THEN "done" ELSE "raised"
           /\ raised' = call.raised
  /\ UNCHANGED << time_periods, files, period_data, drug_mapping, cursor, comparison,
                  metrics_data, metrics_df >>

Next ==
  \/ LoadPeriod
  \/ CollectStart
  \/ CollectStep
  \/ CollectReturn
  \/ CompareFormularyPeriods
  \/ AnalyzeNdcStats

Spec == Init /\ [][Next]_vars

---------------------------------------------------------------------------
(* What the properties below are stated with                               *)

\* The elements of a sequence.
Range(seq) == { seq[k] : k \in 1..Len(seq) }

\* Two NDC values with the same normalised form.
SameNdc(a, b) == NormalizeNdc(a) = NormalizeNdc(b)

\* The keys of the plans of a loaded period whose formulary lists the NDC.
CoveringPlanKeys(period, ndc) ==
  LET snap == period_data[period]
  IN  { pr.PLAN_KEY : pr \in { x \in Range(snap.plans_df.rows) :
          \E fr \in Range(snap.formulary_df.rows) :
             SameNdc(fr.NDC, ndc) /\ fr.FORMULARY_ID = x.FORMULARY_ID } }

\* The formulary ids of the rows of a file that list the NDC.
ListingFormularies(file, ndc) ==
  { fr.FORMULARY_ID : fr \in { x \in Range(file.table) : SameNdc(x.NDC, ndc) } }

\* An analyze_plan_changes call has been made.
Compared == comparison # None

\* collect_metrics_by_period has returned its table.
Returned == pc = "done" /\ fa_call = None

\* compare_formulary_periods has been called and both files were read.
FaCompared ==
  /\ fa_call # None
  /\ fa_call.fn = "compare_formulary_periods"
  /\ fa_call.raised \in {"", "ZeroDivisionError"}

FaOldFile == files[time_periods[fa_call.old]].formulary
FaNewFile == files[time_periods[fa_call.new]].formulary

---------------------------------------------------------------------------
(* C1 *)

\* C1: in every comparison made, with old_keys and new_keys the keys (plan keys
\* in analyze_plan_changes, formulary ids in compare_formulary_periods) that
\* list the NDC in the old and in the new snapshot: maintained = old_keys \cap
\* new_keys, added = new_keys \ old_keys, removed = old_keys \ new_keys, added
\* and removed are disjoint, old_keys = maintained \cup removed, new_keys =
\* maintained \cup added, and the reported counts satisfy maintained + removed =
\* |old_keys| and maintained + added = |new_keys|.
C1_SetAlgebra ==
  /\ Compared =>
       LET old_keys == CoveringPlanKeys(comparison.old_period, comparison.result.ndc)
           new_keys == CoveringPlanKeys(comparison.new_period, comparison.result.ndc)
           counts   == comparison.result.plan_changes
       IN  /\ comparison.maintained_plans = old_keys \cap new_keys
           /\ comparison.added_plans = new_keys \ old_keys
           /\ comparison.removed_plans = old_keys \ new_keys
           /\ comparison.added_plans \cap comparison.removed_plans = {}
           /\ old_keys = comparison.maintained_plans \cup comparison.removed_plans
           /\ new_keys = comparison.maintained_plans \cup comparison.added_plans
           /\ counts.maintained + counts.removed = Cardinality(old_keys)
           /\ counts.maintained + counts.added = Cardinality(new_keys)
  /\ FaCompared =>
       LET old_keys == ListingFormularies(FaOldFile, fa_call.target_ndc)
           new_keys == ListingFormularies(FaNewFile, fa_call.target_ndc)
       IN  /\ fa_call.maintained_formularies = old_keys \cap new_keys
           /\ fa_call.added_formularies = new_keys \ old_keys
           /\ fa_call.removed_formularies = old_keys \ new_keys
           /\ fa_call.added_formularies \cap fa_call.removed_formularies = {}
           /\ old_keys = fa_call.maintained_formularies \cup fa_call.removed_formularies
           /\ new_keys = fa_call.maintained_formularies \cup fa_call.added_formularies
           /\ fa_call.raised = "" =>
                LET counts == fa_call.result.formulary_changes
                IN  /\ counts.maintained + counts.removed = Cardinality(old_keys)
                    /\ counts.maintained + counts.added = Cardinality(new_keys)

\* A comparison in which some plan is maintained, some added and some removed.
C1_Witness ==
  /\ Compared
  /\ comparison.maintained_plans # {}
  /\ comparison.added_plans # {}
  /\ comparison.removed_plans # {}

---------------------------------------------------------------------------
(* C2 *)

\* C2: the coverage percentage of a period (in hundredths of a percent) is
\* between 0 and 100 when the period's total count is greater than 0, and is 0,
\* with no failure, when the total is 0; in analyze_plan_changes the total is
\* the number of distinct plan keys of the period's plan table, in
\* compare_formulary_periods the number of distinct formulary ids of the file.
C2_CoverageWithinBounds ==
  /\ Compared =>
       LET cov == comparison.result.coverage
           tot == comparison.result.total_plans
       IN  /\ tot.old > 0 => cov.old_coverage_percent \in 0..10000
           /\ tot.new > 0 => cov.new_coverage_percent \in 0..10000
           /\ tot.old = 0 => cov.old_coverage_percent = 0
           /\ tot.new = 0 => cov.new_coverage_percent = 0
  /\ FaCompared =>
       /\ fa_call.raised = ""
       /\ LET cov == fa_call.result.coverage
          IN  /\ fa_call.old_total_formularies > 0 => cov.old_coverage_percent \in 0..10000
              /\ fa_call.new_total_formularies > 0 => cov.new_coverage_percent \in 0..10000
              /\ fa_call.old_total_formularies = 0 => cov.old_coverage_percent = 0
              /\ fa_call.new_total_formularies = 0 => cov.new_coverage_percent = 0

---------------------------------------------------------------------------
(* C3 *)

\* The loops of collect_metrics_by_period are over.
CollectOver ==
  /\ pc \in {"collect", "done", "raised"}
  /\ drug_mapping # << >>
  /\ cursor.d > Len(drug_mapping)

\* The (drug, NDC) pairs of drug_mapping.
Pairs ==
  UNION { { << drug_mapping[d].drug, drug_mapping[d].ndcs[k] >> :
              k \in 1..Len(drug_mapping[d].ndcs) } : d \in 1..Len(drug_mapping) }

\* The positions of the rows of a table for one (drug, NDC, period).
RowsOf(table, pair, period) ==
  { k \in 1..Len(table) :
      table[k].drug = pair[1] /\ table[k].ndc = pair[2] /\ table[k].period = period }

\* The positions of the rows of a table for one (drug, NDC).
RowsOfPair(table, pair) ==
  { k \in 1..Len(table) : table[k].drug = pair[1] /\ table[k].ndc = pair[2] }

\* C3: once the loops of collect_metrics_by_period are over, for time_periods of
\* any length n >= 1, the call does not fail and has emitted, for every (drug,
\* NDC) pair of the mapping, exactly n rows: one per period of time_periods.
C3_OneRowPerTriple ==
  CollectOver =>
    /\ raised = ""
    /\ \A pair \in Pairs :
         /\ Cardinality(RowsOfPair(metrics_data, pair)) = Len(time_periods)
         /\ \A j \in 1..Len(time_periods) :
              Cardinality(RowsOf(metrics_data, pair, time_periods[j])) = 1

---------------------------------------------------------------------------
(* C4 *)

\* The position of a period in time_periods.
PeriodIndex(period) == CHOOSE j \in 1..Len(time_periods) : time_periods[j] = period

\* The number of positions of a table that hold the row r.
Occurrences(table, r) == Cardinality({ k \in 1..Len(table) : table[k] = r })

\* C4 as stated: in the table returned, the rows of every (drug, NDC) pair
\* appear in the order of their periods in time_periods.
C4_ChronologicalOrder ==
  Returned =>
    \A j, k \in 1..Len(metrics_df) :
      (j < k /\ metrics_df[j].drug = metrics_df[k].drug
             /\ metrics_df[j].ndc = metrics_df[k].ndc)
        => PeriodIndex(metrics_df[j].period) < PeriodIndex(metrics_df[k].period)

\* C4: the table returned holds the rows emitted, each as often as emitted,
\* ordered by drug name, then NDC, then period identifier compared as text: the
\* rows of a (drug, NDC) pair appear in ascending order of their identifiers,
\* which is the order of time_periods exactly when the identifiers ascend in it.
C4_SortedByIdentifier ==
  Returned =>
    /\ Len(metrics_df) = Len(metrics_data)
    /\ \A k \in 1..Len(metrics_data) :
         Occurrences(metrics_df, metrics_data[k]) = Occurrences(metrics_data, metrics_data[k])
    /\ \A j, k \in 1..Len(metrics_df) :
         j < k =>
           \/ StrLess(metrics_df[j].drug, metrics_df[k].drug)
           \/ /\ metrics_df[j].drug = metrics_df[k].drug
              /\ \/ CellLess(metrics_df[j].ndc, metrics_df[k].ndc)
                 \/ /\ metrics_df[j].ndc = metrics_df[k].ndc
                    /\ StrLess(metrics_df[j].period, metrics_df[k].period)
    /\ (\A j, k \in 1..Len(time_periods) :
          j < k => StrLess(time_periods[j], time_periods[k]))
         <=> (\A j, k \in 1..Len(metrics_df) :
                (j < k /\ metrics_df[j].drug = metrics_df[k].drug
                       /\ metrics_df[j].ndc = metrics_df[k].ndc)
                  => PeriodIndex(metrics_df[j].period) < PeriodIndex(metrics_df[k].period))

\* A table returned in another order than its rows were emitted in.
C4_Witness ==
  /\ Returned
  /\ metrics_df # metrics_data
  /\ Len(time_periods) = 3

---------------------------------------------------------------------------
(* C5 *)

\* The joined view of one loaded period for an NDC.
OwnView(period, ndc) ==
  drop_duplicates(merge(FilterNdc(period_data[period].formulary_df.rows, ndc),
                        period_data[period].plans_df.rows))

\* C5: in the table returned, every (drug, NDC) pair has exactly one row tagged
\* with the first period; it carries 0 maintained, added and removed plans, the
\* total plan count of the first period, and the coverage, average tier, PA and
\* ST percent of the first period's own joined view; every later period has
\* exactly one row, so that no second baseline row exists.
C5_BaselineRow ==
  Returned =>
    \A pair \in Pairs :
      LET first == time_periods[1]
          view  == OwnView(first, pair[2])
          own   == Rounded1(calculate_metrics(view))
          total == period_data[first].total_plans
      IN  /\ Cardinality(RowsOf(metrics_df, pair, first)) = 1
          /\ \A k \in RowsOf(metrics_df, pair, first) :
               /\ metrics_df[k].maintained_plans = 0
               /\ metrics_df[k].added_plans = 0
               /\ metrics_df[k].removed_plans = 0
               /\ metrics_df[k].total_plans = total
               /\ metrics_df[k].coverage =
                    (IF total > 0
                     THEN Round(100 * Cardinality(CoveringPlanKeys(first, pair[2])), total, 2)
                     ELSE 0)
               /\ metrics_df[k].avg_tier = own.avg_tier
               /\ metrics_df[k].pa_percent = own.pa_percent
               /\ metrics_df[k].st_percent = own.st_percent
          /\ \A j \in 2..Len(time_periods) :
               Cardinality(RowsOf(metrics_df, pair, time_periods[j])) = 1

\* A table returned whose baseline row differs from the row that follows it in
\* time: the first period's view is not the second period's.
C5_Witness ==
  /\ Returned
  /\ \E pair \in Pairs :
       \E j \in RowsOf(metrics_df, pair, time_periods[1]),
          k \in RowsOf(metrics_df, pair, time_periods[2]) :
            /\ metrics_df[j].avg_tier # metrics_df[k].avg_tier
            /\ metrics_df[j].coverage # metrics_df[k].coverage
            /\ metrics_df[j].coverage > 0

---------------------------------------------------------------------------
(* C6 *)

\* The rounded metrics of no rows.
Zero3 == [avg_tier |-> 0, pa_percent |-> 0, st_percent |-> 0]

\* The requirements of no rows, were they reported as zeros.
ZeroRequirements == [avg_tier |-> 0, prior_auth_percent |-> 0, step_therapy_percent |-> 0]

\* The groups of analyze_plan_changes and analyze_ndc_stats report zeros for no rows.
EmptyGroupsZero ==
  /\ Compared =>
       LET m == comparison.result.metric_changes
       IN  /\ comparison.old_merged = << >> => m.all_plans.old = Zero3
           /\ comparison.new_merged = << >> => m.all_plans.new = Zero3
           /\ comparison.maintained_plans = {} =>
                m.maintained_plans.old = Zero3 /\ m.maintained_plans.new = Zero3
           /\ comparison.added_plans = {} => m.added_plans = Zero3
  /\ (fa_call # None /\ fa_call.fn = "analyze_ndc_stats"
        /\ FaOldFile.outcome[1] = "ok"
        /\ ListingFormularies(FaOldFile, fa_call.target_ndc) = {}) =>
       /\ fa_call.raised = ""
       /\ fa_call.result.avg_tier = 0
       /\ fa_call.result.prior_auth_percent = 0
       /\ fa_call.result.step_therapy_percent = 0
       /\ fa_call.result.count = 0

---------------------------------------------------------------------------
(* C7 *)

\* The three ways the NDC of Tafamidis is written.
TafamidisForms == { PyStr(Ndc8), PyStr(Ndc11), PyInt(NdcInt) }

\* The rows of a table whose NDC, normalised, is the normalised query.
Matching(table, ndc) == SelectSeq(table, LAMBDA r : SameNdc(r.NDC, ndc))

\* The rows of a table whose NDC is one of the written forms of Tafamidis.
TafamidisRows(table) == SelectSeq(table, LAMBDA r : r.NDC \in TafamidisForms)

\* C7: the formulary rows a comparison selects are the rows whose normalised NDC
\* equals the normalised query, in both programs; a query for '69197540',
\* '00069197540' or 69197540 selects the rows that store any of the three.
C7_NormalizedMatch ==
  /\ Compared =>
       LET ndc      == comparison.result.ndc
           old_rows == period_data[comparison.old_period].formulary_df.rows
           new_rows == period_data[comparison.new_period].formulary_df.rows
       IN  /\ comparison.old_data = Matching(old_rows, ndc)
           /\ comparison.new_data = Matching(new_rows, ndc)
           /\ ndc \in TafamidisForms =>
                /\ comparison.old_data = TafamidisRows(old_rows)
                /\ comparison.new_data = TafamidisRows(new_rows)
  /\ FaCompared =>
       LET ndc == fa_call.target_ndc
       IN  /\ Len(fa_call.old_data) = Len(Matching(FaOldFile.table, ndc))
           /\ Len(fa_call.new_data) = Len(Matching(FaNewFile.table, ndc))
           /\ ndc \in TafamidisForms =>
                /\ Len(fa_call.old_data) = Len(TafamidisRows(FaOldFile.table))
                /\ Len(fa_call.new_data) = Len(TafamidisRows(FaNewFile.table))
  /\ (fa_call # None /\ fa_call.fn = "analyze_ndc_stats" /\ fa_call.raised = "") =>
       fa_call.result.count = Len(Matching(FaOldFile.table, fa_call.target_ndc))

\* A query for '69197540' has selected a row that stores the integer and a row
\* that stores '00069197540'.
C7_Witness ==
  /\ Compared
  /\ comparison.result.ndc = PyStr(Ndc8)
  /\ \E j, k \in 1..Len(comparison.old_data) :
       /\ comparison.old_data[j].NDC = PyInt(NdcInt)
       /\ comparison.old_data[k].NDC = PyStr(Ndc11)

---------------------------------------------------------------------------
(* C8 *)

\* C8: no comparison made with an NDC of more than 11 characters returns a
\* result: it ends in InvalidNdcError.
C8_LongNdcRejected ==
  /\ (Compared /\ Len(str(comparison.result.ndc)) > NdcWidth) =>
       comparison.raised = "InvalidNdcError"
  /\ (fa_call # None /\ Len(str(fa_call.target_ndc)) > NdcWidth) =>
       fa_call.raised = "InvalidNdcError"

---------------------------------------------------------------------------
(* C9 *)

\* The first candidate encoding that reads a file, 0 when none does.
FirstDecoding(file) ==
  IF \E e \in 1..Len(encodings) : file.outcome[e] = "ok"
  THEN CHOOSE e \in 1..Len(encodings) :
         file.outcome[e] = "ok" /\ \A x \in 1..(e - 1) : file.outcome[x] # "ok"
  ELSE 0

\* C9: every period stored by the loading loop holds the tables of its two
\* files, each read by some candidate encoding; a file no candidate encoding
\* reads ends the run and nothing, a null table least of all, is stored for its
\* period.
C9_LoadFailsWithoutNullTable ==
  \A period \in DOMAIN period_data :
    /\ FirstDecoding(files[period].plan) # 0
    /\ FirstDecoding(files[period].formulary) # 0
    /\ period_data[period].formulary_df # None
    /\ period_data[period].formulary_df = DataFrame(files[period].formulary.table)

---------------------------------------------------------------------------
(* C10 *)

\* The joined row of formulary row i and plan row j of a loaded period.
Joined(period, i, j) ==
  period_data[period].formulary_df.rows[i] @@ period_data[period].plans_df.rows[j]

\* The pairs (i, j) of a formulary row listing the NDC and a plan row on its
\* formulary with the given plan key.
Candidates(period, ndc, key) ==
  LET snap == period_data[period]
  IN  { ij \in (1..Len(snap.formulary_df.rows)) \X (1..Len(snap.plans_df.rows)) :
          /\ SameNdc(snap.formulary_df.rows[ij[1]].NDC, ndc)
          /\ snap.formulary_df.rows[ij[1]].FORMULARY_ID
               = snap.plans_df.rows[ij[2]].FORMULARY_ID
          /\ snap.plans_df.rows[ij[2]].PLAN_KEY = key }

\* The first of the candidates: the earliest formulary row, then plan row.
FirstCandidate(period, ndc, key) ==
  CHOOSE ij \in Candidates(period, ndc, key) :
    \A other \in Candidates(period, ndc, key) :
      \/ ij[1] < other[1]
      \/ ij[1] = other[1] /\ ij[2] <= other[2]

\* A joined view holds one row per covering plan key: the first joined row.
OneRowPerPlanKey(view, period, ndc) ==
  /\ Cardinality(Values(view, "PLAN_KEY")) = Len(view)
  /\ Values(view, "PLAN_KEY") = CoveringPlanKeys(period, ndc)
  /\ \A k \in 1..Len(view) :
       LET ij == FirstCandidate(period, ndc, view[k].PLAN_KEY)
       IN  view[k] = Joined(period, ij[1], ij[2])

\* C10: the joined view of either side of a comparison holds exactly one row
\* per plan key (contract id, '_', plan id) covering the NDC, whatever the number
\* of plan rows with that key and of formulary rows for the NDC, and that row is
\* the first joined row of the key.
C10_OneRowPerPlanKey ==
  Compared =>
    /\ OneRowPerPlanKey(comparison.old_merged, comparison.old_period, comparison.result.ndc)
    /\ OneRowPerPlanKey(comparison.new_merged, comparison.new_period, comparison.result.ndc)
    /\ \A r \in Range(comparison.old_merged) \cup Range(comparison.new_merged) :
         r.PLAN_KEY = str(r.CONTRACT_ID) \o << "_" >> \o str(r.PLAN_ID)

\* A comparison whose old period has a plan key with several joined rows,
\* from repeated plan rows and from repeated formulary rows.
C10_Witness ==
  /\ Compared
  /\ \E key \in Values(comparison.old_merged, "PLAN_KEY") :
       \E a, b \in Candidates(comparison.old_period, comparison.result.ndc, key) :
         /\ a[1] # b[1]
         /\ a[2] # b[2]
         /\ Joined(comparison.old_period, a[1], a[2])
              # Joined(comparison.old_period, b[1], b[2])

---------------------------------------------------------------------------
(* C11 *)

\* The row of a joined view for a plan key it holds.
RowOfKey(view, key) == CHOOSE r \in Range(view) : r.PLAN_KEY = key

\* The maintained plan keys whose value of a column differs between the old and
\* the new view of a comparison.
ChangedKeys(col) ==
  { key \in comparison.maintained_plans :
      RowOfKey(comparison.old_merged, key)[col] # RowOfKey(comparison.new_merged, key)[col] }

\* C11: in every comparison, prior_auth_changes (step_therapy_changes) is the
\* number of maintained plan keys whose PRIOR_AUTHORIZATION_YN (STEP_THERAPY_YN)
\* in the old view differs from that of the same key in the new view; it lies
\* between 0 and the number of maintained plans and is 0 when none is maintained.
C11_FlagChanges ==
  Compared =>
    LET ch == comparison.result.metric_changes.changes
        n  == Cardinality(comparison.maintained_plans)
    IN  /\ ch.prior_auth_changes = Cardinality(ChangedKeys("PRIOR_AUTHORIZATION_YN"))
        /\ ch.step_therapy_changes = Cardinality(ChangedKeys("STEP_THERAPY_YN"))
        /\ ch.prior_auth_changes \in 0..n
        /\ ch.step_therapy_changes \in 0..n
        /\ n = 0 => ch.prior_auth_changes = 0 /\ ch.step_therapy_changes = 0

\* A comparison of two maintained plans, listed in another order in the new
\* view than in the old, one of which changed its prior authorization.
C11_Witness ==
  /\ Compared
  /\ Cardinality(comparison.maintained_plans) = 2
  /\ comparison.result.metric_changes.changes.prior_auth_changes = 1
  /\ Len(comparison.old_merged) = 2
  /\ Len(comparison.new_merged) = 2
  /\ comparison.old_merged[1].PLAN_KEY = comparison.new_merged[2].PLAN_KEY

---------------------------------------------------------------------------
(* C12 *)

\* The snapshot of a period as the loaders return it from the period's files.
Loaded(period) ==
  LET pl == load_plans_data(files[period].plan)
      fo == load_formulary_data(files[period].formulary)
  IN  [plans_df     |-> pl.plans_df,
       total_plans  |-> pl.total_plans_count,
       formulary_df |-> fo.formulary_df]

\* C12: whatever queries collect_metrics_by_period has made, every loaded
\* snapshot (formulary table, plan table, total plan count) equals its value
\* right after loading, and the result of the last analyze_plan_changes call is
\* the one the call gives on the snapshots as loaded, for its two periods and
\* its NDC: it does not depend on the queries made before it.
C12_SnapshotsUnchanged ==
  /\ \A period \in DOMAIN period_data : period_data[period] = Loaded(period)
  /\ Compared =>
       LET old == Loaded(comparison.old_period)
           new == Loaded(comparison.new_period)
       IN  comparison.result =
             analyze_plan_changes(old.formulary_df.rows, old.plans_df.rows, old.total_plans,
                                  new.formulary_df.rows, new.plans_df.rows, new.total_plans,
                                  comparison.result.ndc).result

\* Queries for three NDCs of two drugs have been made over three shared
\* snapshots that list both drugs' NDCs or one of them.
C12_Witness ==
  /\ Returned
  /\ Len(time_periods) = 3
  /\ Cardinality(Pairs) = 3
  /\ \E j, k \in 1..Len(metrics_df) :
       /\ metrics_df[j].ndc # metrics_df[k].ndc
       /\ metrics_df[j].coverage > 0
       /\ metrics_df[k].total_plans > 0

---------------------------------------------------------------------------
(* C13 *)

\* The row of the table returned for a (drug, NDC) pair and the j-th period.
RowAt(pair, j) ==
  metrics_df[CHOOSE k \in 1..Len(metrics_df) : k \in RowsOf(metrics_df, pair, time_periods[j])]

\* The counts chain across the comparison rows of every pair: maintained +
\* removed of the row of P(k+1) and maintained + added of the row of Pk are both
\* the number of plan keys covering the NDC in Pk, 2 <= k < n.
CountsChain ==
  \A pair \in Pairs :
    \A k \in 2..(Len(time_periods) - 1) :
      LET covering == Cardinality(CoveringPlanKeys(time_periods[k], pair[2]))
      IN  /\ RowAt(pair, k + 1).maintained_plans + RowAt(pair, k + 1).removed_plans = covering
          /\ RowAt(pair, k).maintained_plans + RowAt(pair, k).added_plans = covering

\* C13 as stated: the counts chain, and the coverage of every comparison row
\* (coverage / 100 percent) is exactly 100 * (maintained + added) / total_plans
\* when total_plans > 0.
C13_CountsChainExact ==
  Returned =>
    /\ CountsChain
    /\ \A pair \in Pairs :
         \A k \in 2..Len(time_periods) :
           LET row == RowAt(pair, k)
           IN  row.total_plans > 0 =>
                 row.coverage * row.total_plans
                   = 10000 * (row.maintained_plans + row.added_plans)

\* C13: the counts chain, and the coverage of every comparison row is 100 *
\* (maintained + added) / total_plans rounded to two decimals when total_plans >
\* 0: a multiple of 0.01 at most 0.005 away from the quotient.
C13_CountsChain ==
  Returned =>
    /\ CountsChain
    /\ \A pair \in Pairs :
         \A k \in 2..Len(time_periods) :
           LET row  == RowAt(pair, k)
               diff == row.coverage * row.total_plans
                         - 10000 * (row.maintained_plans + row.added_plans)
           IN  row.total_plans > 0 =>
                 /\ 2 * diff <= row.total_plans
                 /\ -2 * diff <= row.total_plans

\* A table returned for three periods in which a plan is added in the second
\* period and a plan removed in the third.
C13_Witness ==
  /\ Returned
  /\ Len(time_periods) = 3
  /\ \E pair \in Pairs :
       /\ RowAt(pair, 2).added_plans > 0
       /\ RowAt(pair, 2).maintained_plans > 0
       /\ RowAt(pair, 3).removed_plans > 0
       /\ RowAt(pair, 3).coverage > 0

=============================================================================
